---- MODULE Spec2Model ----
(***************************************************************************)
(* Quota / payment commands of greenfield-cmd (cmd/cmd_payment.go):        *)
(* buy-quota (buyQuotaForBucket), get-price (getQuotaPrice) and quota-info *)
(* (getQuotaInfo), run against a chain client whose answers depend on the  *)
(* chain state, on the process-wide cancellation context and on the        *)
(* transport.  Other processes may create and delete buckets between the   *)
(* steps of an invocation.                                                 *)
(*                                                                         *)
(* A returned error is represented by the kind of the error value that the *)
(* command returns (for "return toCmdErr(e)" the kind of e).               *)
(***************************************************************************)
EXTENDS Integers, Sequences, FiniteSets, TLC

\* ---------------------------------------------------------------- bounds
MaxQuota == 2
MaxFloat == 1

\* ---------------------------------------------------------------- domains
BucketNames == {"b1", "b2"}
TargetQuotas == 0..MaxQuota
SpAddresses == {"", "0xSP1", "0xUnknown"}
KnownSPs == {"0xSP1"}
TxHashes == {"0xABC", "0xDEF"}
\* sdk.Dec prices quoted by the chain; values above MaxFloat stand for the
\* ones strconv cannot represent as a float64
Decs == 0..(MaxFloat + 1)
Counters == 0..MaxQuota

NoBucket == "<none>"

VARIABLES
    buckets,        \* chain: set of existing bucket names
    chargedQuota,   \* chain: charged read quota of each bucket
    cancelled,      \* globalContext has been cancelled
    pc,             \* position of the running command
    cmd,            \* which command the process runs
    bucketName,     \* result of getBucketNameByUrl
    targetQuota,    \* --chargedQuota flag
    spAddressStr,   \* --spAddress flag
    calls,          \* chain-client calls made by this invocation, in order
    out,            \* lines printed by this invocation, in order
    ret             \* value returned by the command action

vars == <<buckets, chargedQuota, cancelled, pc, cmd, bucketName, targetQuota,
          spAddressStr, calls, out, ret>>

chainVars == <<buckets, chargedQuota>>
inputVars == <<cmd, bucketName, targetQuota, spAddressStr>>

\* ---------------------------------------------------------------- helpers
Call(op, arg, quota, mode, err, val) ==
    [op |-> op, arg |-> arg, quota |-> quota, mode |-> mode, err |-> err, val |-> val]

Line(kind, strs, nums) == [kind |-> kind, strs |-> strs, nums |-> nums]

\* tx.BroadcastMode_BROADCAST_MODE_BLOCK: wait for inclusion in a block
broadcastMode_M == "BROADCAST_MODE_SYNC"
broadcastMode == "BROADCAST_MODE_BLOCK"

\* "if err != nil" after client.HeadBucket
HeadFails_M(err) == err = "ErrCanceled"
HeadFails_M2(err) == FALSE
HeadFails(err) == err # "nil"

\* "if targetQuota == 0"
QuotaNotSet(q) == q = 0

\* "if spAddressStr == \"\""
SpAddressMissing_M(s) == FALSE
SpAddressMissing(s) == s = ""

\* value returned by buy-quota when client.BuyQuotaForBucket fails
BuyErrRet_M(err) == err
BuyErrRet(err) == "nil"

\* sdk.Dec.Float64: the float value, or a range error
Float64(d) ==
    IF d > MaxFloat THEN [err |-> "ErrParse", val |-> 0]
                    ELSE [err |-> "nil", val |-> d]

\* the conversions and prints of getQuotaPrice after a successful price query
PriceReport_M(price) ==
    LET q == Float64(price.ReadPrice)
        s == Float64(price.StorePrice)
    IN  IF q.err # "nil"
        THEN [out |-> <<Line("get quota price error", <<q.err>>, <<>>)>>, ret |-> q.err]
        ELSE IF s.err # "nil"
        THEN [out |-> <<Line("read quota price", <<>>, <<q.val>>),
                        Line("get storage price error", <<s.err>>, <<>>)>>, ret |-> s.err]
        ELSE [out |-> <<Line("read quota price", <<>>, <<q.val>>),
                        Line("storage price", <<>>, <<s.val>>)>>, ret |-> "nil"]
PriceReport(price) ==
    LET q == Float64(price.ReadPrice)
        s == Float64(price.StorePrice)
    IN  IF q.err # "nil"
        THEN [out |-> <<Line("get quota price error", <<q.err>>, <<>>)>>, ret |-> q.err]
        ELSE IF s.err # "nil"
        THEN [out |-> <<Line("get storage price error", <<s.err>>, <<>>)>>, ret |-> s.err]
        ELSE [out |-> <<Line("read quota price", <<>>, <<q.val>>),
                        Line("storage price", <<>>, <<s.val>>)>>, ret |-> "nil"]

\* the line printed by getQuotaInfo: charged, free, consumed
QuotaInfoLine_M(info) ==
    Line("quota info", <<>>,
         <<info.ReadQuotaSize, info.ReadConsumedSize, info.SPFreeReadQuotaSize>>)
QuotaInfoLine(info) ==
    Line("quota info", <<>>,
         <<info.ReadQuotaSize, info.SPFreeReadQuotaSize, info.ReadConsumedSize>>)

\* ------------------------------------------------- chain client answers
\* error of client.HeadBucket(c, name)
HeadBucketErrs(name) ==
    IF cancelled THEN {"ErrCanceled"}
    ELSE (IF name \in buckets THEN {"nil"} ELSE {"ErrNoSuchBucket"}) \cup {"ErrRpc"}

\* error of client.BuyQuotaForBucket(c, name, quota, opts)
BuyQuotaErrs(name) ==
    IF cancelled THEN {"ErrCanceled"}
    ELSE IF name \in buckets THEN {"nil", "ErrTx"} ELSE {"ErrTx"}

\* error of client.GetStoragePrice(c, addr)
StoragePriceErrs(addr) ==
    IF cancelled THEN {"ErrCanceled"}
    ELSE IF addr \in KnownSPs THEN {"nil"} ELSE {"ErrRpc"}

\* error of client.GetBucketReadQuota(c, name)
ReadQuotaErrs(name) ==
    IF cancelled THEN {"ErrCanceled"}
    ELSE IF name \in buckets THEN {"nil", "ErrRpc"} ELSE {"ErrRpc"}

\* ---------------------------------------------------------------- Init
Init ==
    /\ buckets \in SUBSET BucketNames
    /\ chargedQuota = [b \in BucketNames |-> 0]
    /\ cancelled = FALSE
    /\ pc = "idle"
    /\ cmd = "none"
    /\ bucketName = NoBucket
    /\ targetQuota = 0
    /\ spAddressStr = ""
    /\ calls = <<>>
    /\ out = <<>>
    /\ ret = "none"

Finish(r) == /\ pc' = "done"
             /\ ret' = r

\* ---------------------------------------------------------------- buy-quota
\* getBucketNameByUrl and NewClient
BuyStart ==
    /\ pc = "idle"
    /\ \E name \in BucketNames \cup {NoBucket}, q \in TargetQuotas, clientOk \in BOOLEAN :
         /\ cmd' = "buy-quota"
         /\ targetQuota' = q
         /\ bucketName' = name
         /\ IF name = NoBucket THEN Finish("ErrUrl")
            ELSE IF ~clientOk THEN Finish("ErrClient")
            ELSE pc' = "buy_head" /\ ret' = ret
    /\ UNCHANGED <<chainVars, cancelled, spAddressStr, calls, out>>

\* client.HeadBucket, then the target quota check
BuyHeadBucket ==
    /\ pc = "buy_head"
    /\ \E err \in HeadBucketErrs(bucketName) :
         /\ calls' = Append(calls, Call("HeadBucket", bucketName, 0, "none", err, <<>>))
         /\ IF HeadFails(err) THEN Finish("ErrBucketNotExist")
            ELSE IF QuotaNotSet(targetQuota) THEN Finish("ErrTargetQuotaNotSet")
            ELSE pc' = "buy_submit" /\ ret' = ret
    /\ UNCHANGED <<chainVars, cancelled, inputVars, out>>

\* client.BuyQuotaForBucket with the block broadcast mode, then the report
BuySubmit ==
    /\ pc = "buy_submit"
    /\ \E err \in BuyQuotaErrs(bucketName), h \in TxHashes :
         LET txnHash == IF err = "nil" THEN h ELSE "" IN
         /\ calls' = Append(calls, Call("BuyQuotaForBucket", bucketName, targetQuota,
                                        broadcastMode, err, <<txnHash>>))
         /\ IF err # "nil"
            THEN /\ out' = Append(out, Line("buy quota error", <<err>>, <<>>))
                 /\ Finish(BuyErrRet(err))
                 /\ UNCHANGED chargedQuota
            ELSE /\ out' = Append(out, Line("buy quota successfully", <<bucketName, txnHash>>, <<>>))
                 /\ Finish("nil")
                 /\ chargedQuota' = [chargedQuota EXCEPT ![bucketName] = targetQuota]
    /\ UNCHANGED <<buckets, cancelled, inputVars>>

\* ---------------------------------------------------------------- get-price
\* NewClient and the --spAddress check
PriceStart ==
    /\ pc = "idle"
    /\ \E addr \in SpAddresses, clientOk \in BOOLEAN :
         /\ cmd' = "get-price"
         /\ spAddressStr' = addr
         /\ IF ~clientOk THEN Finish("ErrClient")
            ELSE IF SpAddressMissing(addr) THEN Finish("ErrFetchSpAddress")
            ELSE pc' = "price_query" /\ ret' = ret
    /\ UNCHANGED <<chainVars, cancelled, bucketName, targetQuota, calls, out>>

\* client.GetStoragePrice, the two Float64 conversions and the prints
PriceQuery ==
    /\ pc = "price_query"
    /\ \E err \in StoragePriceErrs(spAddressStr), rp \in Decs, sp \in Decs :
         LET price == [ReadPrice |-> rp, StorePrice |-> sp] IN
         IF err # "nil"
         THEN /\ calls' = Append(calls, Call("GetStoragePrice", spAddressStr, 0, "none", err, <<>>))
              /\ Finish(err)
              /\ out' = out
         ELSE /\ calls' = Append(calls, Call("GetStoragePrice", spAddressStr, 0, "none", err, <<rp, sp>>))
              /\ Finish(PriceReport(price).ret)
              /\ out' = out \o PriceReport(price).out
    /\ UNCHANGED <<chainVars, cancelled, inputVars>>

\* ---------------------------------------------------------------- quota-info
\* getBucketNameByUrl and NewClient
InfoStart ==
    /\ pc = "idle"
    /\ \E name \in BucketNames \cup {NoBucket}, clientOk \in BOOLEAN :
         /\ cmd' = "quota-info"
         /\ bucketName' = name
         /\ IF name = NoBucket THEN Finish("ErrUrl")
            ELSE IF ~clientOk THEN Finish("ErrClient")
            ELSE pc' = "info_head" /\ ret' = ret
    /\ UNCHANGED <<chainVars, cancelled, targetQuota, spAddressStr, calls, out>>

\* client.HeadBucket
InfoHeadBucket ==
    /\ pc = "info_head"
    /\ \E err \in HeadBucketErrs(bucketName) :
         /\ calls' = Append(calls, Call("HeadBucket", bucketName, 0, "none", err, <<>>))
         /\ IF HeadFails(err) THEN Finish("ErrBucketNotExist")
            ELSE pc' = "info_read" /\ ret' = ret
    /\ UNCHANGED <<chainVars, cancelled, inputVars, out>>

\* client.GetBucketReadQuota and the print
InfoReadQuota ==
    /\ pc = "info_read"
    /\ \E err \in ReadQuotaErrs(bucketName), free \in Counters, used \in Counters :
         LET quotaInfo == [ReadQuotaSize |-> chargedQuota[bucketName],
                           SPFreeReadQuotaSize |-> free,
                           ReadConsumedSize |-> used] IN
         IF err # "nil"
         THEN /\ calls' = Append(calls, Call("GetBucketReadQuota", bucketName, 0, "none", err, <<>>))
              /\ Finish(err)
              /\ out' = out
         ELSE /\ calls' = Append(calls, Call("GetBucketReadQuota", bucketName, 0, "none", err,
                                             <<quotaInfo.ReadQuotaSize,
                                               quotaInfo.SPFreeReadQuotaSize,
                                               quotaInfo.ReadConsumedSize>>))
              /\ Finish("nil")
              /\ out' = Append(out, QuotaInfoLine(quotaInfo))
    /\ UNCHANGED <<chainVars, cancelled, inputVars>>

\* ---------------------------------------------------------------- environment
\* the process exits; the next command runs in a fresh process
Exit ==
    /\ pc = "done"
    /\ pc' = "idle"
    /\ cmd' = "none"
    /\ bucketName' = NoBucket
    /\ targetQuota' = 0
    /\ spAddressStr' = ""
    /\ calls' = <<>>
    /\ out' = <<>>
    /\ ret' = "none"
    /\ cancelled' = FALSE
    /\ UNCHANGED chainVars

\* an external signal cancels globalContext while a command runs
Cancel ==
    /\ pc \notin {"idle", "done"}
    /\ ~cancelled
    /\ cancelled' = TRUE
    /\ UNCHANGED <<chainVars, pc, inputVars, calls, out, ret>>

\* another process creates a bucket
EnvCreateBucket ==
    /\ \E b \in BucketNames \ buckets :
         /\ buckets' = buckets \cup {b}
         /\ chargedQuota' = [chargedQuota EXCEPT ![b] = 0]
    /\ UNCHANGED <<cancelled, pc, inputVars, calls, out, ret>>

\* another process deletes a bucket
EnvDeleteBucket ==
    /\ \E b \in buckets :
         /\ buckets' = buckets \ {b}
         /\ chargedQuota' = [chargedQuota EXCEPT ![b] = 0]
    /\ UNCHANGED <<cancelled, pc, inputVars, calls, out, ret>>

Next ==
    \/ BuyStart
    \/ BuyHeadBucket
    \/ BuySubmit
    \/ PriceStart
    \/ PriceQuery
    \/ InfoStart
    \/ InfoHeadBucket
    \/ InfoReadQuota
    \/ Exit
    \/ Cancel
    \/ EnvCreateBucket
    \/ EnvDeleteBucket

Spec == Init /\ [][Next]_vars

TypeOK ==
    /\ buckets \subseteq BucketNames
    /\ chargedQuota \in [BucketNames -> TargetQuotas]
    /\ cancelled \in BOOLEAN
    /\ pc \in {"idle", "buy_head", "buy_submit", "price_query", "info_head", "info_read", "done"}
    /\ cmd \in {"none", "buy-quota", "get-price", "quota-info"}
    /\ bucketName \in BucketNames \cup {NoBucket}
    /\ targetQuota \in TargetQuotas
    /\ spAddressStr \in SpAddresses
    /\ Len(calls) <= 2
    /\ Len(out) <= 2
    /\ (pc = "done") = (ret # "none")

\* ---------------------------------------------------------------- properties
Last(seq) == seq[Len(seq)]

CallsOf(op) == {i \in 1..Len(calls) : calls[i].op = op}

LinesOf(kinds) == {i \in 1..Len(out) : out[i].kind \in kinds}

\* the command got past getBucketNameByUrl / NewClient
ClientReady == ret \notin {"ErrUrl", "ErrClient"}

\* C1: whenever HeadBucket reports that the bucket does not exist, the
\* command (buy-quota or quota-info) has ended with ErrBucketNotExist and
\* that HeadBucket call is the last chain-client call of the invocation:
\* no BuyQuotaForBucket and no GetBucketReadQuota call follows.
C1_NotFoundStops ==
    \A i \in 1..Len(calls) :
        (calls[i].op = "HeadBucket" /\ calls[i].err = "ErrNoSuchBucket")
            => /\ cmd \in {"buy-quota", "quota-info"}
               /\ i = Len(calls)
               /\ pc = "done"
               /\ ret = "ErrBucketNotExist"
               /\ CallsOf("BuyQuotaForBucket") = {}
               /\ CallsOf("GetBucketReadQuota") = {}

C1_Witness ==
    /\ cmd = "buy-quota"
    /\ targetQuota > 0
    /\ pc = "done"
    /\ Len(calls) = 1
    /\ calls[1].op = "HeadBucket"
    /\ calls[1].err = "ErrNoSuchBucket"
    /\ ret = "ErrBucketNotExist"

\* C2 (as claimed): a finished buy-quota invocation with targetQuota = 0
\* whose HeadBucket call answered for the bucket's state (exists or not)
\* has failed with "target quota not set" and never called BuyQuotaForBucket.
C2_ZeroTargetInputError ==
    (/\ cmd = "buy-quota"
     /\ pc = "done"
     /\ ClientReady
     /\ targetQuota = 0
     /\ Len(calls) >= 1
     /\ calls[1].err \in {"nil", "ErrNoSuchBucket"})
        => /\ ret = "ErrTargetQuotaNotSet"
           /\ CallsOf("BuyQuotaForBucket") = {}

\* C3 (as claimed): when buy-quota returns the "target quota not set" error,
\* no chain-client call (in particular no HeadBucket) has been made.
C3_ZeroTargetBeforeNetwork ==
    (cmd = "buy-quota" /\ ret = "ErrTargetQuotaNotSet") => calls = <<>>

\* C4: when the BuyQuotaForBucket call of buy-quota fails, the command
\* returns nil, has printed exactly the "buy quota error" diagnostic carrying
\* that error, and has printed no success line.
C4_SubmitFailureIsSoft ==
    \A i \in CallsOf("BuyQuotaForBucket") :
        calls[i].err # "nil"
            => /\ pc = "done"
               /\ ret = "nil"
               /\ out = <<Line("buy quota error", <<calls[i].err>>, <<>>)>>
               /\ LinesOf({"buy quota successfully"}) = {}

C4_Witness ==
    /\ cmd = "buy-quota"
    /\ pc = "done"
    /\ bucketName \in buckets
    /\ targetQuota > 0
    /\ Len(calls) = 2
    /\ calls[2].op = "BuyQuotaForBucket"
    /\ calls[2].err = "ErrTx"
    /\ ret = "nil"

\* C5: an invocation calls BuyQuotaForBucket at most once and always with
\* the block broadcast mode; a finished buy-quota whose HeadBucket succeeded
\* with targetQuota > 0 has called it exactly once, for that bucket and
\* quota, and if the chain accepted, the printed hash is the returned one.
C5_SubmitOnceBlockMode ==
    /\ Cardinality(CallsOf("BuyQuotaForBucket")) <= 1
    /\ \A i \in CallsOf("BuyQuotaForBucket") :
          calls[i].mode = "BROADCAST_MODE_BLOCK"
    /\ (/\ cmd = "buy-quota"
        /\ pc = "done"
        /\ targetQuota > 0
        /\ Len(calls) >= 1
        /\ calls[1].err = "nil")
          => /\ Cardinality(CallsOf("BuyQuotaForBucket")) = 1
             /\ calls[2].op = "BuyQuotaForBucket"
             /\ calls[2].arg = bucketName
             /\ calls[2].quota = targetQuota
             /\ (calls[2].err = "nil"
                   => /\ ret = "nil"
                      /\ out = <<Line("buy quota successfully",
                                      <<bucketName, calls[2].val[1]>>, <<>>)>>)

C5_Witness ==
    /\ cmd = "buy-quota"
    /\ pc = "done"
    /\ targetQuota = MaxQuota
    /\ Len(calls) = 2
    /\ calls[2].op = "BuyQuotaForBucket"
    /\ calls[2].err = "nil"
    /\ calls[2].val = <<"0xABC">>
    /\ out = <<Line("buy quota successfully", <<bucketName, "0xABC">>, <<>>)>>

\* C6 (as claimed): when the last chain-client call of a finished command
\* was aborted by cancellation, the command returns the cancellation error.
C6_CancellationSurfaces ==
    (/\ pc = "done"
     /\ Len(calls) >= 1
     /\ Last(calls).err = "ErrCanceled")
        => ret = "ErrCanceled"

\* C7: a finished get-price invocation with an empty --spAddress (and a
\* constructed client) has failed with the missing-address error and made
\* no chain-client call.
C7_EmptyAddressNoCall ==
    (/\ cmd = "get-price"
     /\ pc = "done"
     /\ ClientReady
     /\ spAddressStr = "")
        => /\ ret = "ErrFetchSpAddress"
           /\ calls = <<>>

C7_Witness ==
    /\ cmd = "get-price"
    /\ pc = "done"
    /\ spAddressStr = ""
    /\ ret = "ErrFetchSpAddress"

PriceLineKinds == {"read quota price", "storage price"}

\* C8: after a successful price query, get-price prints either both price
\* lines or none; if the read price or the store price cannot be converted
\* the command returns an error and prints no price line.
C8_BothPricesOrNeither ==
    (/\ cmd = "get-price"
     /\ pc = "done"
     /\ Len(calls) = 1
     /\ calls[1].err = "nil")
        => /\ Cardinality(LinesOf(PriceLineKinds)) \in {0, 2}
           /\ (calls[1].val[1] > MaxFloat \/ calls[1].val[2] > MaxFloat)
                 => /\ ret = "ErrParse"
                    /\ LinesOf(PriceLineKinds) = {}
           /\ (calls[1].val[1] <= MaxFloat /\ calls[1].val[2] <= MaxFloat)
                 => /\ ret = "nil"
                    /\ out = <<Line("read quota price", <<>>, <<calls[1].val[1]>>),
                               Line("storage price", <<>>, <<calls[1].val[2]>>)>>

\* the store price fails to convert while the read price converted
C8_Witness ==
    /\ cmd = "get-price"
    /\ pc = "done"
    /\ Len(calls) = 1
    /\ calls[1].err = "nil"
    /\ calls[1].val[1] <= MaxFloat
    /\ calls[1].val[2] > MaxFloat
    /\ ret = "ErrParse"
    /\ out = <<Line("get storage price error", <<"ErrParse">>, <<>>)>>

\* C9: when GetBucketReadQuota succeeds, quota-info returns nil and prints
\* exactly one line carrying the three returned counters in the order
\* charged, free, consumed; when it fails, quota-info returns that error and
\* prints nothing.
C9_CountersUnmodified ==
    \A i \in CallsOf("GetBucketReadQuota") :
        /\ pc = "done"
        /\ calls[i].err = "nil"
              => /\ ret = "nil"
                 /\ out = <<Line("quota info", <<>>, calls[i].val)>>
        /\ calls[i].err # "nil"
              => /\ ret = calls[i].err
                 /\ out = <<>>

\* consumed exceeds charged + free and is still reported as-is
C9_Witness ==
    /\ cmd = "quota-info"
    /\ pc = "done"
    /\ Len(calls) = 2
    /\ calls[2].op = "GetBucketReadQuota"
    /\ calls[2].err = "nil"
    /\ calls[2].val[1] = 1
    /\ calls[2].val[2] = 0
    /\ calls[2].val[3] = 2
    /\ out = <<Line("quota info", <<>>, <<1, 0, 2>>)>>

\* C10 (as claimed): every step that issues BuyQuotaForBucket is taken in a
\* state where the target bucket exists on chain.
C10_SubmitOnlyForExistingBucket ==
    [][(pc = "buy_submit" /\ pc' = "done") => bucketName \in buckets]_vars

\* C10 (amended): BuyQuotaForBucket is only ever the second call of an
\* invocation, made after the HeadBucket check of the same bucket in the same
\* invocation succeeded; existence is not checked again before submission.
C10_SubmitOnlyAfterHeadOk ==
    \A i \in CallsOf("BuyQuotaForBucket") :
        /\ i = 2
        /\ calls[1].op = "HeadBucket"
        /\ calls[1].arg = calls[i].arg
        /\ calls[1].err = "nil"
        /\ CallsOf("HeadBucket") = {1}

\* the bucket was deleted after the check: the submission was issued for a
\* bucket that is gone
C10_Witness ==
    /\ cmd = "buy-quota"
    /\ pc = "done"
    /\ Len(calls) = 2
    /\ calls[1].err = "nil"
    /\ calls[2].op = "BuyQuotaForBucket"
    /\ calls[2].err = "ErrTx"
    /\ bucketName \notin buckets
====
